---- MODULE Spec2Model ----
(***************************************************************************)
(* A model of the ccgenor C code generation library: the CFunction builder *)
(* (src/src/core/ctypes/cfunction.rs) and the Context aggregator           *)
(* (src/src/core/context.rs).                                              *)
(*                                                                         *)
(* A Rust String / &str is modelled as a sequence of one-character         *)
(* strings, so that push_str is concatenation and every separator, brace,  *)
(* quote and newline the code emits is a visible element of the text.      *)
(***************************************************************************)
EXTENDS Naturals, Sequences, FiniteSets, TLC

(***************************************************************************)
(* Bounds of the model.                                                    *)
(***************************************************************************)
\* The number of mutating or printing calls the caller makes in one run.
MaxCalls == 4

(***************************************************************************)
(* The string literals of the source.                                      *)
(***************************************************************************)
EmptyString == << >>
Space == <<" ">>
OpenParen == <<"(">>
CommaSpace == <<",", " ">>
DeclarationTail == <<")", ";">>
StartTail == <<")", " ", "{", "\n">>
CallTail == <<")", ";", "\n">>
EndText == <<"}", "\n">>
IncludeHead == <<"#", "i", "n", "c", "l", "u", "d", "e", " ", "\"">>
IncludeTail == <<"\"", "\n">>
Newline == <<"\n">>

\* cvartypes::C_INT, C_VOID and C_LONG
C_INT == <<"i", "n", "t">>
C_VOID == <<"v", "o", "i", "d">>
C_LONG == <<"l", "o", "n", "g">>

(***************************************************************************)
(* The inputs the caller supplies, drawn from small sets.                  *)
(***************************************************************************)
\* The builders of the tests and doc examples: `add` with two parameters,
\* one without parameters, and one with three parameters.
BuilderInputs ==
    { <<<<"a", "d", "d">>, C_INT, <<<<"i", "n", "t", " ", "a">>, <<"i", "n", "t", " ", "b">>>>>>,
      <<<<"f">>, C_VOID, << >>>>,
      <<<<"g">>, C_LONG, <<<<"x">>, <<"y">>, <<"z">>>>>> }

\* (function_name, args) of create_function_call
CallInputs ==
    { <<<<"p">>, << >>>>,
      <<<<"p">>, <<<<"x">>>>>>,
      <<<<"q">>, <<<<"1">>, <<"a">>>>>> }

\* caller-supplied text of set_/append_generated_function_body_ccode
BodyInputs == { <<"r", ";">> }

\* caller-supplied text of add_ccode and header names of add_include
RawInputs == { <<"x", ";", "\n">>, <<"y", ";", "\n">> }
HeaderInputs == { <<"s", ".", "h">> }

(***************************************************************************)
(* String                                                                  *)
(***************************************************************************)
String_new == EmptyString

push_str(s, t) == s \o t

(***************************************************************************)
(* CFunction                                                               *)
(***************************************************************************)
new(name, return_type, parameters) ==
    [ name |-> name,
      return_type |-> return_type,
      parameters |-> parameters,
      generated_function_body_ccode |-> String_new ]

get_name(self) == self.name

get_return_type(self) == self.return_type

get_parameters(self) == self.parameters

get_generated_function_body_ccode(self) == self.generated_function_body_ccode

set_generated_function_body_ccode_appending(self, ccode) ==
    [self EXCEPT !.generated_function_body_ccode = push_str(@, ccode)]

set_generated_function_body_ccode(self, ccode) ==
    [self EXCEPT !.generated_function_body_ccode = ccode]

append_generated_function_body_ccode(self, ccode) ==
    [self EXCEPT !.generated_function_body_ccode = push_str(@, ccode)]

\* The loop of create_function_declarations over parameters.iter().enumerate(),
\* from index i (0-based) on.
RECURSIVE declarations_loop(_, _, _)
declarations_loop(declarations, parameters, i) ==
    IF i >= Len(parameters)
    THEN declarations
    ELSE LET sep == IF i > 0 THEN push_str(declarations, CommaSpace) ELSE declarations
         IN declarations_loop(push_str(sep, parameters[i + 1]), parameters, i + 1)

create_function_declarations_appending(self) ==
    LET d1 == push_str(String_new, self.return_type)
        d2 == push_str(d1, Space)
        d3 == push_str(d2, self.name)
        d4 == push_str(d3, OpenParen)
        d5 == declarations_loop(d4, self.parameters, 0)
        d6 == push_str(d5, DeclarationTail)
    IN append_generated_function_body_ccode(self, d6)

create_function_declarations(self) ==
    LET d1 == push_str(String_new, self.return_type)
        d2 == push_str(d1, Space)
        d3 == push_str(d2, self.name)
        d4 == push_str(d3, OpenParen)
        d5 == declarations_loop(d4, self.parameters, 0)
        d6 == push_str(d5, DeclarationTail)
    IN set_generated_function_body_ccode(self, d6)

\* The loop of create_function_start, a copy of the one above in the source.
RECURSIVE start_loop_trailing_separator(_, _, _)
start_loop_trailing_separator(declarations, parameters, i) ==
    IF i >= Len(parameters)
    THEN declarations
    ELSE start_loop_trailing_separator(
             push_str(push_str(declarations, parameters[i + 1]), CommaSpace),
             parameters, i + 1)

RECURSIVE start_loop(_, _, _)
start_loop(declarations, parameters, i) ==
    IF i >= Len(parameters)
    THEN declarations
    ELSE LET sep == IF i > 0 THEN push_str(declarations, CommaSpace) ELSE declarations
         IN start_loop(push_str(sep, parameters[i + 1]), parameters, i + 1)

create_function_start(self) ==
    LET d1 == push_str(String_new, self.return_type)
        d2 == push_str(d1, Space)
        d3 == push_str(d2, self.name)
        d4 == push_str(d3, OpenParen)
        d5 == start_loop(d4, self.parameters, 0)
        d6 == push_str(d5, StartTail)
    IN set_generated_function_body_ccode(self, d6)

\* The same loop walking the arguments from the last to the first.
RECURSIVE call_loop_reversed(_, _, _)
call_loop_reversed(call, args, i) ==
    IF i >= Len(args)
    THEN call
    ELSE LET sep == IF i > 0 THEN push_str(call, CommaSpace) ELSE call
         IN call_loop_reversed(push_str(sep, args[Len(args) - i]), args, i + 1)

\* The loop of create_function_call over args.iter().enumerate().
RECURSIVE call_loop(_, _, _)
call_loop(call, args, i) ==
    IF i >= Len(args)
    THEN call
    ELSE LET sep == IF i > 0 THEN push_str(call, CommaSpace) ELSE call
         IN call_loop(push_str(sep, args[i + 1]), args, i + 1)

create_function_call_replacing(self, function_name, args) ==
    LET c1 == push_str(String_new, function_name)
        c2 == push_str(c1, OpenParen)
        c3 == call_loop(c2, args, 0)
        c4 == push_str(c3, CallTail)
    IN set_generated_function_body_ccode(self, c4)

create_function_call(self, function_name, args) ==
    LET c1 == push_str(String_new, function_name)
        c2 == push_str(c1, OpenParen)
        c3 == call_loop(c2, args, 0)
        c4 == push_str(c3, CallTail)
    IN append_generated_function_body_ccode(self, c4)

\* A variant that closes a body only when one was opened.
create_function_end_guarded(self) ==
    IF \E i \in 1..Len(self.generated_function_body_ccode) :
           self.generated_function_body_ccode[i] = "{"
    THEN append_generated_function_body_ccode(self, EndText)
    ELSE self

create_function_end_without_newline(self) ==
    append_generated_function_body_ccode(self, <<"}">>)

create_function_end(self) ==
    append_generated_function_body_ccode(self, EndText)

(***************************************************************************)
(* Context                                                                 *)
(***************************************************************************)
Context_new == [ ccode |-> EmptyString ]

get_ccode(self) == self.ccode

add_ccode(self, ccode) == [self EXCEPT !.ccode = push_str(@, ccode)]

\* format!("#include \"{}\"\n", head_file_to_include)
format_include(head_file_to_include) ==
    IncludeHead \o head_file_to_include \o IncludeTail

add_include_unterminated(self, head_file_to_include) ==
    add_ccode(self, IncludeHead \o head_file_to_include \o <<"\"">>)

add_include(self, head_file_to_include) ==
    add_ccode(self, format_include(head_file_to_include))

add_function_closing(self, func) ==
    add_ccode(self, get_generated_function_body_ccode(func) \o EndText)

add_function(self, func) ==
    add_ccode(self, get_generated_function_body_ccode(func))

\* println!("{}", self.ccode): what one call writes to the standard output
println_ccode(self) == self.ccode \o Newline

(***************************************************************************)
(* State.                                                                  *)
(*   func    the caller's CFunction                                        *)
(*   ctx     the caller's Context                                          *)
(*   stdout  the writes made to the standard output, one per println!      *)
(*   call    the call the caller made last: its name and arguments         *)
(*   ret     what that call returned: << >> for (), <<text>> for a &str    *)
(*   ftrace  the calls made on func that take &mut self, in order, each    *)
(*           with the buffer it left                                       *)
(*   log     the calls made on ctx that take &mut self, in order, with the *)
(*           text handed over (for add_function, the builder's buffer at   *)
(*           the time of the call)                                         *)
(***************************************************************************)
VARIABLES func, ctx, stdout, call, ret, ftrace, log

vars == <<func, ctx, stdout, call, ret, ftrace, log>>

Unit == << >>

NoArg == << >>

CallsMade == Len(ftrace) + Len(log) + Len(stdout)

CanCall == CallsMade < MaxCalls

Init ==
    /\ \E b \in BuilderInputs : func = new(b[1], b[2], b[3])
    /\ ctx = Context_new
    /\ stdout = << >>
    /\ call = [op |-> "new", arg |-> NoArg]
    /\ ret = Unit
    /\ ftrace = << >>
    /\ log = << >>

\* A call on func through &mut self: ctx is out of its reach.
FuncCall(op, arg, after) ==
    /\ CanCall
    /\ func' = after
    /\ call' = [op |-> op, arg |-> arg]
    /\ ret' = Unit
    /\ ftrace' = Append(ftrace, [op |-> op, arg |-> arg,
                                 body |-> after.generated_function_body_ccode])
    /\ UNCHANGED <<ctx, stdout, log>>

\* A call on ctx through &mut self: func is at most borrowed shared.
CtxCall(op, arg, after) ==
    /\ CanCall
    /\ ctx' = after
    /\ call' = [op |-> op, arg |-> arg]
    /\ ret' = Unit
    /\ log' = Append(log, [op |-> op, arg |-> arg])
    /\ UNCHANGED <<func, stdout, ftrace>>

Do_set_generated_function_body_ccode ==
    \E ccode \in BodyInputs :
        FuncCall("set_generated_function_body_ccode", <<ccode>>,
                 set_generated_function_body_ccode(func, ccode))

Do_append_generated_function_body_ccode ==
    \E ccode \in BodyInputs :
        FuncCall("append_generated_function_body_ccode", <<ccode>>,
                 append_generated_function_body_ccode(func, ccode))

Do_create_function_declarations ==
    FuncCall("create_function_declarations", NoArg,
             create_function_declarations(func))

Do_create_function_start ==
    FuncCall("create_function_start", NoArg, create_function_start(func))

Do_create_function_call ==
    \E c \in CallInputs :
        FuncCall("create_function_call", c, create_function_call(func, c[1], c[2]))

Do_create_function_end ==
    FuncCall("create_function_end", NoArg, create_function_end(func))

Do_get_generated_function_body_ccode ==
    /\ ret' = <<get_generated_function_body_ccode(func)>>
    /\ call' = [op |-> "get_generated_function_body_ccode", arg |-> NoArg]
    /\ UNCHANGED <<func, ctx, stdout, ftrace, log>>

Do_add_ccode ==
    \E ccode \in RawInputs :
        CtxCall("add_ccode", ccode, add_ccode(ctx, ccode))

Do_add_include ==
    \E h \in HeaderInputs :
        CtxCall("add_include", h, add_include(ctx, h))

Do_add_function ==
    CtxCall("add_function", get_generated_function_body_ccode(func),
            add_function(ctx, func))

Do_get_ccode ==
    /\ ret' = <<get_ccode(ctx)>>
    /\ call' = [op |-> "get_ccode", arg |-> NoArg]
    /\ UNCHANGED <<func, ctx, stdout, ftrace, log>>

\* print_ccode that hands the text over and leaves the buffer empty
Do_print_ccode_draining ==
    /\ CanCall
    /\ stdout' = Append(stdout, println_ccode(ctx))
    /\ ctx' = Context_new
    /\ call' = [op |-> "print_ccode", arg |-> NoArg]
    /\ ret' = Unit
    /\ UNCHANGED <<func, ftrace, log>>

Do_print_ccode ==
    /\ CanCall
    /\ stdout' = Append(stdout, println_ccode(ctx))
    /\ call' = [op |-> "print_ccode", arg |-> NoArg]
    /\ ret' = Unit
    /\ UNCHANGED <<func, ctx, ftrace, log>>

Next ==
    \/ Do_set_generated_function_body_ccode
    \/ Do_append_generated_function_body_ccode
    \/ Do_create_function_declarations
    \/ Do_create_function_start
    \/ Do_create_function_call
    \/ Do_create_function_end
    \/ Do_get_generated_function_body_ccode
    \/ Do_add_ccode
    \/ Do_add_include
    \/ Do_add_function
    \/ Do_get_ccode
    \/ Do_print_ccode

Spec == Init /\ [][Next]_vars

(***************************************************************************)
(* The texts the specification describes, written from its templates.      *)
(***************************************************************************)
RECURSIVE Join(_, _)
Join(texts, sep) ==
    IF texts = << >> THEN << >>
    ELSE IF Len(texts) = 1 THEN texts[1]
    ELSE texts[1] \o sep \o Join(Tail(texts), sep)

RECURSIVE Concat(_)
Concat(texts) ==
    IF texts = << >> THEN << >> ELSE texts[1] \o Concat(Tail(texts))

IsPrefix(s, t) == Len(s) <= Len(t) /\ SubSeq(t, 1, Len(s)) = s

\* "{return_type} {name}({param1}, {param2}, ...)"
SignatureText(f) ==
    f.return_type \o <<" ">> \o f.name \o <<"(">>
        \o Join(f.parameters, <<",", " ">>) \o <<")">>

DeclarationText(f) == SignatureText(f) \o <<";">>

DefinitionHeaderText(f) == SignatureText(f) \o <<" ", "{", "\n">>

\* "{function_name}({arg1}, {arg2}, ...);\n"
CallStatementText(function_name, args) ==
    function_name \o <<"(">> \o Join(args, <<",", " ">>) \o <<")", ";", "\n">>

CloseText == <<"}", "\n">>

IncludeDirectiveText(h) ==
    <<"#", "i", "n", "c", "l", "u", "d", "e", " ", "\"">> \o h \o <<"\"", "\n">>

EmissionOps ==
    { "create_function_declarations", "create_function_start",
      "create_function_call", "create_function_end" }

BufferOps ==
    { "set_generated_function_body_ccode", "append_generated_function_body_ccode" }

ContextAppendOps == { "add_ccode", "add_include", "add_function" }

Body == func.generated_function_body_ccode

\* The buffer before the i-th call of ftrace.
BodyBefore(i) == IF i = 1 THEN << >> ELSE ftrace[i - 1].body

Ops(trace) == [i \in 1..Len(trace) |-> trace[i].op]

\* The statement lines of the create_function_call entries trace[a..b].
CallLines(trace, a, b) ==
    Concat([i \in 1..(b - a + 1) |->
               CallStatementText(trace[a + i - 1].arg[1], trace[a + i - 1].arg[2])])

\* The informal builder states of the specification, as shapes of the calls made.
IsEmpty == ftrace = << >>

IsDeclared ==
    ftrace # << >> /\ ftrace[Len(ftrace)].op = "create_function_declarations"

\* create_function_start, then only create_function_call
IsBodyOpened ==
    \E s \in 1..Len(ftrace) :
        /\ ftrace[s].op = "create_function_start"
        /\ \A i \in (s + 1)..Len(ftrace) : ftrace[i].op = "create_function_call"

\* create_function_start, then only create_function_call, then create_function_end
IsClosed ==
    /\ Len(ftrace) >= 2
    /\ ftrace[Len(ftrace)].op = "create_function_end"
    /\ \E s \in 1..(Len(ftrace) - 1) :
           /\ ftrace[s].op = "create_function_start"
           /\ \A i \in (s + 1)..(Len(ftrace) - 1) : ftrace[i].op = "create_function_call"

\* The whole life of the builder is the intended sequence: start, calls, end.
IntendedSequence ==
    /\ Len(ftrace) >= 2
    /\ ftrace[1].op = "create_function_start"
    /\ ftrace[Len(ftrace)].op = "create_function_end"
    /\ \A i \in 2..(Len(ftrace) - 1) : ftrace[i].op = "create_function_call"

(***************************************************************************)
(* C1                                                                      *)
(***************************************************************************)
Contribution(e) ==
    CASE e.op = "add_ccode" -> e.arg
      [] e.op = "add_include" -> IncludeDirectiveText(e.arg)
      [] e.op = "add_function" -> e.arg

Contributions(entries) ==
    Concat([i \in 1..Len(entries) |-> Contribution(entries[i])])

\* C1: after any sequence of add_ccode / add_include / add_function calls on a
\* fresh Context, get_ccode() is the concatenation, in call order, of the
\* calls' contributions (the text, the include directive, the builder's buffer
\* at the time of the call), and every step keeps the output so far as a
\* prefix of the output after it.
C1_OutputIsConcatenation ==
    /\ [](get_ccode(ctx) = Contributions(log))
    /\ [][IsPrefix(ctx.ccode, ctx'.ccode)]_vars

\* An include, then a non-empty function text, then raw text, all in the output.
C1_Witness ==
    /\ Len(log) = 3
    /\ Ops(log) = <<"add_include", "add_function", "add_ccode">>
    /\ log[2].arg # << >>
    /\ get_ccode(ctx) = IncludeDirectiveText(log[1].arg) \o log[2].arg \o log[3].arg

(***************************************************************************)
(* C2                                                                      *)
(***************************************************************************)
\* C2: create_function_declarations, in any builder state, replaces the whole
\* buffer by return_type ' ' name '(' params joined by ', ' ');' with no
\* trailing newline; without parameters that is return_type ' ' name '();';
\* called twice in a row it leaves the buffer of the first call.
C2_DeclarationOverwrites ==
    [][call'.op = "create_function_declarations" =>
         /\ func'.generated_function_body_ccode = DeclarationText(func)
         /\ func.parameters = << >> =>
                func'.generated_function_body_ccode =
                    func.return_type \o <<" ">> \o func.name \o <<"(", ")", ";">>
         /\ call.op = "create_function_declarations" =>
                func'.generated_function_body_ccode = func.generated_function_body_ccode
         /\ func'.generated_function_body_ccode[Len(func'.generated_function_body_ccode)] = ";"
      ]_vars

\* A declaration emitted over a closed body, for a builder with parameters.
C2_Witness ==
    /\ Len(ftrace) >= 3
    /\ ftrace[Len(ftrace) - 1].op = "create_function_end"
    /\ ftrace[Len(ftrace) - 2].op = "create_function_start"
    /\ call.op = "create_function_declarations"
    /\ Len(func.parameters) = 2
    /\ Body = DeclarationText(func)

(***************************************************************************)
(* C3                                                                      *)
(***************************************************************************)
\* C3: create_function_start, in any builder state, replaces the whole buffer
\* by return_type ' ' name '(' params joined by ', ' ') {\n', which is the text
\* of create_function_declarations on the same builder with the final ';'
\* replaced by ' {\n'.
C3_DefinitionStartOverwrites ==
    [][call'.op = "create_function_start" =>
         LET d == create_function_declarations(func).generated_function_body_ccode
         IN /\ func'.generated_function_body_ccode = DefinitionHeaderText(func)
            /\ d[Len(d)] = ";"
            /\ func'.generated_function_body_ccode =
                   SubSeq(d, 1, Len(d) - 1) \o <<" ", "{", "\n">>
      ]_vars

\* A definition header emitted over a declaration followed by a statement.
C3_Witness ==
    /\ Len(ftrace) >= 3
    /\ ftrace[Len(ftrace) - 2].op = "create_function_declarations"
    /\ ftrace[Len(ftrace) - 1].op = "create_function_call"
    /\ call.op = "create_function_start"
    /\ Len(func.parameters) = 3
    /\ Body = DefinitionHeaderText(func)

(***************************************************************************)
(* C4                                                                      *)
(***************************************************************************)
\* C4: create_function_call(function_name, args) appends exactly the line
\* function_name '(' args joined by ', ' ');\n' and keeps the buffer before it
\* as a prefix; without args the line is function_name '();\n'; after n calls
\* in a row the buffer is the buffer before them followed by the n lines in
\* call order.
C4_CallAppendsStatement ==
    /\ [][call'.op = "create_function_call" =>
            /\ func'.generated_function_body_ccode =
                   func.generated_function_body_ccode
                       \o CallStatementText(call'.arg[1], call'.arg[2])
            /\ call'.arg[2] = << >> =>
                   func'.generated_function_body_ccode =
                       func.generated_function_body_ccode
                           \o call'.arg[1] \o <<"(", ")", ";", "\n">>
         ]_vars
    /\ [](\A a \in 1..Len(ftrace) : \A b \in a..Len(ftrace) :
             (\A i \in a..b : ftrace[i].op = "create_function_call") =>
                 ftrace[b].body = BodyBefore(a) \o CallLines(ftrace, a, b))

\* Two different calls in a row inside an opened body.
C4_Witness ==
    /\ Len(ftrace) = 3
    /\ Ops(ftrace) = <<"create_function_start", "create_function_call",
                       "create_function_call">>
    /\ ftrace[2].arg # ftrace[3].arg
    /\ ftrace[3].arg[2] # << >>
    /\ Body = DefinitionHeaderText(func) \o CallLines(ftrace, 2, 3)

(***************************************************************************)
(* C5                                                                      *)
(***************************************************************************)
\* C5: create_function_end appends exactly '}\n' whatever the buffer holds; on
\* a fresh builder the buffer becomes '}\n', and each further call adds one
\* more '}\n'.
C5_EndAppendsBrace ==
    [][call'.op = "create_function_end" =>
         /\ func'.generated_function_body_ccode =
                func.generated_function_body_ccode \o <<"}", "\n">>
         /\ ftrace = << >> => func'.generated_function_body_ccode = <<"}", "\n">>
         /\ (ftrace # << >> /\ \A i \in 1..Len(ftrace) : ftrace[i].op = "create_function_end") =>
                Len(func'.generated_function_body_ccode) = 2 * (Len(ftrace) + 1)
      ]_vars

\* Two closings in a row on a builder that never had a body opened.
C5_Witness ==
    /\ Ops(ftrace) = <<"create_function_end", "create_function_end">>
    /\ call.op = "create_function_end"
    /\ Body = <<"}", "\n", "}", "\n">>

(***************************************************************************)
(* C6                                                                      *)
(***************************************************************************)
AddBuilder ==
    /\ func.name = <<"a", "d", "d">>
    /\ func.return_type = <<"i", "n", "t">>
    /\ func.parameters = <<<<"i", "n", "t", " ", "a">>, <<"i", "n", "t", " ", "b">>>>

AddDefinitionText ==
    <<"i", "n", "t", " ", "a", "d", "d", "(", "i", "n", "t", " ", "a", ",", " ",
      "i", "n", "t", " ", "b", ")", " ", "{", "\n", "}", "\n">>

\* C6: after create_function_start, k >= 0 calls of create_function_call and
\* create_function_end the buffer is the definition header, the k statement
\* lines in call order and '}\n'; for k = 0 and the builder
\* ('add', 'int', ['int a', 'int b']) it is 'int add(int a, int b) {\n}\n', and
\* adding the builder to an empty Context makes get_ccode() that same text.
C6_IntendedSequence ==
    /\ IntendedSequence =>
           Body = DefinitionHeaderText(func)
                      \o CallLines(ftrace, 2, Len(ftrace) - 1) \o CloseText
    /\ (AddBuilder /\ Len(ftrace) = 2 /\ IntendedSequence) => Body = AddDefinitionText
    /\ (IntendedSequence /\ Ops(log) = <<"add_function">> /\ call.op = "add_function") =>
           get_ccode(ctx) = DefinitionHeaderText(func)
                                \o CallLines(ftrace, 2, Len(ftrace) - 1) \o CloseText
    /\ (AddBuilder /\ Len(ftrace) = 2 /\ IntendedSequence
            /\ Ops(log) = <<"add_function">> /\ call.op = "add_function") =>
           get_ccode(ctx) = AddDefinitionText

\* The `add` builder driven through start, one statement with two arguments
\* and end, then added to an empty Context.
C6_Witness ==
    /\ AddBuilder
    /\ IntendedSequence
    /\ Len(ftrace) = 3
    /\ Len(ftrace[2].arg[2]) = 2
    /\ Ops(log) = <<"add_function">>
    /\ call.op = "add_function"
    /\ get_ccode(ctx) = Body

(***************************************************************************)
(* C7                                                                      *)
(***************************************************************************)
\* C7: add_function(f) appends to the Context exactly the text f's buffer holds
\* at the call, whatever the builder's state, with no closing brace or other
\* text added; it leaves f's name, return type, parameters and buffer as they
\* were; and a later operation on f does not change the Context's text.
C7_AddFunctionCopiesBuffer ==
    [][/\ call'.op = "add_function" =>
              /\ ctx'.ccode = ctx.ccode \o func.generated_function_body_ccode
              /\ func'.name = func.name
              /\ func'.return_type = func.return_type
              /\ func'.parameters = func.parameters
              /\ func'.generated_function_body_ccode = func.generated_function_body_ccode
       /\ call'.op \in EmissionOps \cup BufferOps => ctx'.ccode = ctx.ccode
      ]_vars

\* A builder added with its body opened and never closed, then closed: the
\* Context holds the header alone.
C7_Witness ==
    /\ Ops(ftrace) = <<"create_function_start", "create_function_end">>
    /\ Ops(log) = <<"add_function">>
    /\ call.op = "create_function_end"
    /\ log[1].arg = DefinitionHeaderText(func)
    /\ get_ccode(ctx) = DefinitionHeaderText(func)
    /\ Body = DefinitionHeaderText(func) \o CloseText

(***************************************************************************)
(* C8                                                                      *)
(***************************************************************************)
\* The effect the specification gives an emission operation on a buffer.
NormalEffect(f, before, e) ==
    CASE e.op = "create_function_declarations" -> DeclarationText(f)
      [] e.op = "create_function_start" -> DefinitionHeaderText(f)
      [] e.op = "create_function_call" ->
             before \o CallStatementText(e.arg[1], e.arg[2])
      [] e.op = "create_function_end" -> before \o CloseText

\* C8: no operation of CFunction or Context fails or is disabled: in every
\* reachable state, in whatever order the calls came, each emission operation
\* and each Context operation is accepted for every input and has its normal
\* overwrite or append effect; create_function_call and create_function_end
\* after create_function_declarations append to the declaration text.
C8_NothingIsRefused ==
    /\ CanCall =>
           /\ ENABLED Do_create_function_declarations
           /\ ENABLED Do_create_function_start
           /\ \A c \in CallInputs :
                  ENABLED FuncCall("create_function_call", c,
                                   create_function_call(func, c[1], c[2]))
           /\ ENABLED Do_create_function_end
           /\ \A t \in RawInputs : ENABLED CtxCall("add_ccode", t, add_ccode(ctx, t))
           /\ \A h \in HeaderInputs : ENABLED CtxCall("add_include", h, add_include(ctx, h))
           /\ ENABLED Do_add_function
           /\ ENABLED Do_print_ccode
    /\ ENABLED Do_get_ccode
    /\ ENABLED Do_get_generated_function_body_ccode
    /\ \A i \in 1..Len(ftrace) :
           ftrace[i].op \in EmissionOps =>
               ftrace[i].body = NormalEffect(func, BodyBefore(i), ftrace[i])
    /\ \A i \in 1..(Len(ftrace) - 1) :
           (/\ ftrace[i].op = "create_function_declarations"
            /\ ftrace[i + 1].op = "create_function_end") =>
               ftrace[i + 1].body = DeclarationText(func) \o CloseText
    /\ \A i \in 1..(Len(ftrace) - 1) :
           (/\ ftrace[i].op = "create_function_declarations"
            /\ ftrace[i + 1].op = "create_function_call") =>
               ftrace[i + 1].body =
                   DeclarationText(func)
                       \o CallStatementText(ftrace[i + 1].arg[1], ftrace[i + 1].arg[2])

\* A statement and a closing brace emitted after a declaration.
C8_Witness ==
    /\ Ops(ftrace) = <<"create_function_declarations", "create_function_call",
                       "create_function_end">>
    /\ Body = DeclarationText(func)
                  \o CallStatementText(ftrace[2].arg[1], ftrace[2].arg[2]) \o CloseText

(***************************************************************************)
(* C9                                                                      *)
(***************************************************************************)
\* The buffer the calls of trace leave, when only the operations in ops act.
RECURSIVE BufferAfter(_, _, _)
BufferAfter(f, trace, ops) ==
    IF trace = << >> THEN << >>
    ELSE LET e == trace[Len(trace)]
             before == BufferAfter(f, SubSeq(trace, 1, Len(trace) - 1), ops)
         IN IF e.op \notin ops THEN before
            ELSE IF e.op \in EmissionOps THEN NormalEffect(f, before, e)
            ELSE IF e.op = "set_generated_function_body_ccode" THEN e.arg[1]
            ELSE before \o e.arg[1]

\* C9 as stated: the buffer is empty after construction and is in every
\* reachable state the result of the emission operations applied so far
\* (create_function_declarations, create_function_start, create_function_call,
\* create_function_end); no other public operation puts caller-supplied text
\* in it.
C9_OnlyEmissionOperations ==
    Body = BufferAfter(func, ftrace, EmissionOps)

\* C9 as amended: the buffer is empty after construction and is in every
\* reachable state the result of the emission operations and of the public
\* set_generated_function_body_ccode (replaces the buffer by the caller's
\* text) and append_generated_function_body_ccode (appends the caller's text)
\* applied so far; no other operation changes it.
C9_EmissionAndBufferOperations ==
    /\ [](/\ call.op = "new" => Body = << >>
          /\ Body = BufferAfter(func, ftrace, EmissionOps \cup BufferOps))
    /\ [][func'.generated_function_body_ccode # func.generated_function_body_ccode =>
              call'.op \in EmissionOps \cup BufferOps]_vars

\* The test's set_generated_function_body_ccode over an emitted declaration,
\* then an append of caller text.
C9_Witness ==
    /\ Ops(ftrace) = <<"create_function_declarations",
                       "set_generated_function_body_ccode",
                       "append_generated_function_body_ccode">>
    /\ Body = ftrace[2].arg[1] \o ftrace[3].arg[1]

(***************************************************************************)
(* C10                                                                     *)
(***************************************************************************)
\* C10: get_generated_function_body_ccode leaves the builder's buffer as it is
\* and returns it; get_ccode and print_ccode leave the Context's buffer as it
\* is; a read repeated with no mutation in between returns the same text, and
\* reads between appends do not alter what later appends produce.
C10_ReadsChangeNothing ==
    /\ [][/\ call'.op = "get_generated_function_body_ccode" =>
                 /\ func' = func /\ ctx' = ctx
                 /\ ret' = <<func.generated_function_body_ccode>>
                 /\ call.op = "get_generated_function_body_ccode" => ret' = ret
          /\ call'.op = "get_ccode" =>
                 /\ func' = func /\ ctx' = ctx
                 /\ ret' = <<ctx.ccode>>
                 /\ call.op = "get_ccode" => ret' = ret
          /\ call'.op = "print_ccode" =>
                 /\ func' = func /\ ctx' = ctx
                 /\ stdout' = Append(stdout, ctx.ccode \o <<"\n">>)
         ]_vars
    /\ [](/\ get_ccode(ctx) = Contributions(log)
          /\ call.op = "get_ccode" => ret = <<Contributions(log)>>
          /\ call.op = "get_generated_function_body_ccode" =>
                 ret = <<BodyBefore(Len(ftrace) + 1)>>)

\* The output printed after a first append and read after a second one.
C10_Witness ==
    /\ Len(log) = 2
    /\ Len(stdout) = 1
    /\ log[1].arg # << >>
    /\ stdout[1] = Contribution(log[1]) \o <<"\n">>
    /\ call.op = "get_ccode"
    /\ ret = <<Contribution(log[1]) \o Contribution(log[2])>>

====
